---- MODULE Spec2Model ----
(***************************************************************************)
(* VocalTwin: the synthesis side.  main() builds a TextToSpeechSynthesizer *)
(* (three setup steps) and calls synthesize(text_dir, output_dir), which   *)
(* walks the discovered .txt files and runs _process_file on each:         *)
(* MeloTTS base rendering -> speaker-embedding extraction -> tone-colour   *)
(* conversion, with the base clip held in a TemporaryDirectory.            *)
(*                                                                         *)
(* File names are sequences of one-character strings and file contents are *)
(* sequences of Unicode code points, so that the "*.txt" glob,             *)
(* Path.with_suffix, read_text's newline translation and str.strip are     *)
(* computed.                                                               *)
(* The three collaborators (TTS, se_extractor, ToneColorConverter) are     *)
(* external: each call either returns or raises, chosen nondeterministic-  *)
(* ally, and a call that returns yields a value built from its arguments.  *)
(***************************************************************************)
EXTENDS Naturals, Sequences, FiniteSets, TLC

VARIABLES
    ckptDir,          \* checkpoint_dir: file name -> content
    textDir,          \* text_dir: the entries below it, in rglob's walk order
    outDir,           \* output_dir: [exists, files: path -> content]
    outDir0,          \* output_dir as it was before the program started
    pc,               \* where the program is
    err,              \* the exception that reached main's caller, or "none"
    converter,        \* self.converter
    target_se,        \* self.target_se
    tts,              \* self.tts
    base_speaker_id,  \* self.base_speaker_id
    txt_files,        \* synthesize's txt_files
    idx,              \* position of the for-loop in txt_files
    tmpdir,           \* _process_file's tmpdir (0: none)
    tmpdirs,          \* temporary directories that exist: id -> base.wav content
    nextTmp,          \* next fresh temporary directory id
    src_se,           \* _process_file's src_se
    calls,            \* collaborator calls made so far, in order
    emitted           \* logger records emitted so far, in order

vars == <<ckptDir, textDir, outDir, outDir0, pc, err, converter, target_se, tts,
          base_speaker_id, txt_files, idx, tmpdir, tmpdirs, nextTmp, src_se,
          calls, emitted>>

-----------------------------------------------------------------------------
(* Bounds and input universes *)

MaxDocs == 3

NmH      == <<"h", ".", "t", "x", "t">>
NmDot    == <<".", "t", "x", "t">>
NmDotTxt == <<".", "t", "x", "t", ".", "t", "x", "t">>
NmMd     == <<"h", ".", "m", "d">>
NmHWav   == <<"h", ".", "w", "a", "v">>
NmKeep   == <<"k">>

Root == <<>>
Sub  == <<"s">>

\* The paths an entry of text_dir may have: the same name in two directories,
\* a name that is only an extension, a name with a doubled extension, a file
\* that is no .txt, and a directory whose name matches the glob.
Candidates ==
    { [dir |-> Root, name |-> NmH,      isFile |-> TRUE],
      [dir |-> Sub,  name |-> NmH,      isFile |-> TRUE],
      [dir |-> Root, name |-> NmDot,    isFile |-> TRUE],
      [dir |-> Sub,  name |-> NmDotTxt, isFile |-> TRUE],
      [dir |-> Root, name |-> NmMd,     isFile |-> TRUE],
      [dir |-> Sub,  name |-> NmDot,    isFile |-> FALSE] }

\* File contents, as the code points of the decoded file: whitespace only
\* (U+3000 CR LF), text wrapped in whitespace with a CR LF inside
\* (FF "h" CR LF "i" CR LF), bare text ("yo").
Blank   == <<12288, 13, 10>>
Padded  == <<12, 104, 13, 10, 105, 13, 10>>
Bare    == <<121, 111>>

\* A directory has no text; the file that is no .txt has one fixed content.
TextsOf(c) ==
    IF ~c.isFile THEN { <<>> }
    ELSE IF c.name = NmMd THEN { Padded }
    ELSE { Blank, Padded, Bare }

Entries ==
    UNION { { [dir |-> c.dir, name |-> c.name, isFile |-> c.isFile, text |-> t] :
                t \in TextsOf(c) } : c \in Candidates }

\* text_dir: up to MaxDocs entries with pairwise different paths, in any order.
Listings ==
    { s \in UNION { [1..n -> Entries] : n \in 0..MaxDocs } :
        \A i, j \in DOMAIN s :
            (s[i].dir = s[j].dir /\ s[i].name = s[j].name) => i = j }

NoClip == <<>>
NoSe   == <<>>

EmptyDir == [p \in {} |-> <<>>]

OldData == <<"old">>

OutPath(d, n) == [dir |-> d, name |-> n]

\* output_dir before the run: missing, or holding an earlier h.wav and a
\* file of another name.
OutDirs ==
    { [exists |-> FALSE, files |-> EmptyDir],
      [exists |-> TRUE,
       files  |-> (OutPath(Root, NmHWav) :> OldData) @@ (OutPath(Root, NmKeep) :> OldData)] }

CkptName == "target_se.pth"

TargetSe == <<"tgt">>

CkptDirs == { [f \in {} |-> [se |-> NoSe]], (CkptName :> [se |-> TargetSe]) }

SpeakerIds == <<"spk0", "spk1">>

-----------------------------------------------------------------------------
(* Pure helpers *)

\* The code points for which str.isspace holds: U+0009..U+000D,
\* U+001C..U+0020, U+0085, U+00A0, U+1680, U+2000..U+200A, U+2028, U+2029,
\* U+202F, U+205F, U+3000.
SpaceChars ==
    (9..13) \cup (28..32) \cup {133, 160, 5760} \cup (8192..8202)
        \cup {8232, 8233, 8239, 8287, 12288}

\* Text mode with newline=None: CR LF and a lone CR are read as LF.
RECURSIVE ReadText(_)
ReadText(s) ==
    IF s = <<>> THEN <<>>
    ELSE IF Head(s) = 13
         THEN IF Len(s) >= 2 /\ s[2] = 10
              THEN <<10>> \o ReadText(SubSeq(s, 3, Len(s)))
              ELSE <<10>> \o ReadText(Tail(s))
         ELSE <<Head(s)>> \o ReadText(Tail(s))

IsSpace(c) == c \in SpaceChars

RECURSIVE LStrip(_)
LStrip(s) == IF s # <<>> /\ IsSpace(Head(s)) THEN LStrip(Tail(s)) ELSE s

RECURSIVE RStrip(_)
RStrip(s) ==
    IF s # <<>> /\ IsSpace(s[Len(s)]) THEN RStrip(SubSeq(s, 1, Len(s) - 1)) ELSE s

\* Mutation of Strip: the text is used as read, untrimmed.
StripNone(s) == s

Strip(s) == RStrip(LStrip(s))

EndsWith(s, t) ==
    /\ Len(s) >= Len(t)
    /\ SubSeq(s, Len(s) - Len(t) + 1, Len(s)) = t

DotTxt == <<".", "t", "x", "t">>
DotWav == <<".", "w", "a", "v">>

GlobTxt(name) == EndsWith(name, DotTxt)

\* str.rfind('.') with 1-based positions; 0 when there is no dot.
RFindDot(name) ==
    LET ds == { i \in 1..Len(name) : name[i] = "." }
    IN  IF ds = {} THEN 0 ELSE CHOOSE i \in ds : \A j \in ds : j <= i

\* PurePath.suffix: the last dot starts the suffix unless it is the first or
\* the last character of the name.
Suffix(name) ==
    LET i == RFindDot(name)
    IN  IF 1 < i /\ i < Len(name) THEN SubSeq(name, i, Len(name)) ELSE <<>>

WithSuffix(name, suffix) ==
    LET old == Suffix(name)
    IN  IF old = <<>> THEN name \o suffix
        ELSE SubSeq(name, 1, Len(name) - Len(old)) \o suffix

CollectTxts(root) ==
    SelectSeq(root, LAMBDA e : GlobTxt(e.name) /\ e.isFile)

\* Mutation of FinalOut: the output mirrors the document's subdirectory.
FinalOutMirrored(txt) == OutPath(txt.dir, WithSuffix(txt.name, DotWav))

FinalOut(txt) == OutPath(Root, WithSuffix(txt.name, DotWav))

BaseAudio(t) == [tmp |-> t, name |-> "base.wav"]

BaseClip(text, speaker) == <<"base", text, speaker>>
SeOf(clip) == <<"se", clip>>
Converted(clip, s, t) == <<"conv", clip, s, t>>

Put(f, k, v) == [x \in DOMAIN f \cup {k} |-> IF x = k THEN v ELSE f[x]]
Drop(f, k) == [x \in DOMAIN f \ {k} |-> f[x]]

Log(level, what, arg) == [level |-> level, what |-> what, arg |-> arg]

\* logging.basicConfig(level=logging.INFO): the root logger passes INFO and
\* above and drops DEBUG.
RootLevel == "INFO"

LevelOrder == <<"DEBUG", "INFO", "WARNING", "ERROR">>

LevelNo(level) == CHOOSE k \in DOMAIN LevelOrder : LevelOrder[k] = level

\* logger.<level>(what, arg) after the records `msgs`.
Emit(msgs, level, what, arg) ==
    IF LevelNo(level) >= LevelNo(RootLevel)
    THEN Append(msgs, Log(level, what, arg))
    ELSE msgs

-----------------------------------------------------------------------------
Init ==
    /\ ckptDir \in CkptDirs
    /\ textDir \in Listings
    /\ outDir \in OutDirs
    /\ outDir0 = outDir
    /\ pc = "new"
    /\ err = "none"
    /\ converter = "unset"
    /\ target_se = NoSe
    /\ tts = "unset"
    /\ base_speaker_id = "unset"
    /\ txt_files = <<>>
    /\ idx = 0
    /\ tmpdir = 0
    /\ tmpdirs = [t \in {} |-> NoClip]
    /\ nextTmp = 1
    /\ src_se = NoSe
    /\ calls = <<>>
    /\ emitted = <<>>


-----------------------------------------------------------------------------
(* Shared pieces of the actions *)

\* Mutation of Mkdir: the directory is recreated empty.
MkdirFresh(od) == [exists |-> TRUE, files |-> EmptyDir]

\* output_dir.mkdir(parents=True, exist_ok=True)
Mkdir(od) == [od EXCEPT !.exists = TRUE]

\* Mutation of WriteFile: an existing file is left as it is.
WriteIfAbsent(files, path, data) ==
    IF path \in DOMAIN files THEN files ELSE Put(files, path, data)

\* A collaborator writing output_path: creates the file or replaces it.
WriteFile(files, path, data) == Put(files, path, data)

\* TemporaryDirectory.__exit__: the directory and all it holds are removed.
TmpCleanup(ds, t) == Drop(ds, t)

\* Mutation of ConvertArgs: the two embeddings are passed the wrong way round.
ConvertArgsSwapped(t, s, tgt, out) ==
    [audio_src_path |-> BaseAudio(t), src_se |-> tgt, tgt_se |-> s, output_path |-> out]

\* The keyword arguments of self.converter.convert(...)
ConvertArgs(t, s, tgt, out) ==
    [audio_src_path |-> BaseAudio(t), src_se |-> s, tgt_se |-> tgt, output_path |-> out]

\* One collaborator call: what was called, for which position of txt_files,
\* with which arguments, whether it returned, and what it returned or wrote.
Call(op, args, ok, ret) ==
    [op |-> op, doc |-> idx, args |-> args, ok |-> ok, ret |-> ret]

Failed == <<"raised">>

\* An exception leaves __init__: nothing catches it in main.
SetupRaise(e) ==
    /\ pc' = "raised"
    /\ err' = e

\* The for-loop of synthesize after _process_file returned, with the records
\* `msgs` emitted by the step that returned.
LoopNext(msgs) ==
    IF idx < Len(txt_files)
    THEN /\ idx' = idx + 1
         /\ pc' = "process"
         /\ emitted' = msgs
    ELSE /\ idx' = idx
         /\ pc' = "done"
         /\ emitted' = Emit(msgs, "INFO", "All done", "output_dir")

\* Mutation of StageRaise: cleanup done by hand on the success path only, so
\* an exception leaves the temporary directory behind.
StageRaiseLeak(e) ==
    /\ tmpdirs' = tmpdirs
    /\ tmpdir' = 0
    /\ pc' = "raised"
    /\ err' = e

\* An exception raised inside the with-block of _process_file: the temporary
\* directory is removed on the way out, and neither _process_file, the loop of
\* synthesize nor main catches it.
StageRaise(e) ==
    /\ tmpdirs' = TmpCleanup(tmpdirs, tmpdir)
    /\ tmpdir' = 0
    /\ pc' = "raised"
    /\ err' = e

-----------------------------------------------------------------------------
(* __init__ *)

InitConverter ==
    /\ pc = "new"
    /\ \/ /\ converter' = "ready"
          /\ pc' = "load_target"
          /\ err' = err
       \/ /\ SetupRaise("ConverterInitError")
          /\ converter' = converter
    /\ UNCHANGED <<ckptDir, textDir, outDir0, outDir, target_se, tts, base_speaker_id,
                   txt_files, idx, tmpdir, tmpdirs, nextTmp, src_se, calls, emitted>>

\* Mutation of LoadTarget: a missing target_se.pth is logged, not raised.
LoadTargetUnguarded ==
    /\ pc = "load_target"
    /\ \/ /\ CkptName \notin DOMAIN ckptDir
          /\ emitted' = Emit(emitted, "WARNING", "target_se.pth not found", CkptName)
          /\ pc' = "init_tts"
          /\ UNCHANGED <<target_se, err>>
       \/ /\ CkptName \in DOMAIN ckptDir
          /\ SetupRaise("CheckpointLoadError")
          /\ UNCHANGED <<target_se, emitted>>
       \/ /\ CkptName \in DOMAIN ckptDir
          /\ target_se' = ckptDir[CkptName].se
          /\ emitted' = Emit(emitted, "INFO", "Loaded target speaker embedding", CkptName)
          /\ pc' = "init_tts"
          /\ err' = err
    /\ UNCHANGED <<ckptDir, textDir, outDir0, outDir, converter, tts, base_speaker_id,
                   txt_files, idx, tmpdir, tmpdirs, nextTmp, src_se, calls>>

LoadTarget ==
    /\ pc = "load_target"
    /\ \/ /\ CkptName \notin DOMAIN ckptDir
          /\ SetupRaise("FileNotFoundError")
          /\ UNCHANGED <<target_se, emitted>>
       \/ /\ CkptName \in DOMAIN ckptDir
          /\ SetupRaise("CheckpointLoadError")
          /\ UNCHANGED <<target_se, emitted>>
       \/ /\ CkptName \in DOMAIN ckptDir
          /\ target_se' = ckptDir[CkptName].se
          /\ emitted' = Emit(emitted, "INFO", "Loaded target speaker embedding", CkptName)
          /\ pc' = "init_tts"
          /\ err' = err
    /\ UNCHANGED <<ckptDir, textDir, outDir0, outDir, converter, tts, base_speaker_id,
                   txt_files, idx, tmpdir, tmpdirs, nextTmp, src_se, calls>>

InitTTS ==
    /\ pc = "init_tts"
    /\ \/ /\ tts' = "ready"
          /\ base_speaker_id' = Head(SpeakerIds)
          /\ emitted' = Emit(emitted, "DEBUG", "TextToSpeechSynthesizer initialised",
                              Head(SpeakerIds))
          /\ pc' = "constructed"
          /\ err' = err
       \/ /\ SetupRaise("EngineInitError")
          /\ UNCHANGED <<tts, base_speaker_id, emitted>>
    /\ UNCHANGED <<ckptDir, textDir, outDir0, outDir, converter, target_se,
                   txt_files, idx, tmpdir, tmpdirs, nextTmp, src_se, calls>>

-----------------------------------------------------------------------------
(* synthesize *)

\* Mutation of Synthesize: an empty text_dir is raised as an error.
SynthesizeRaiseOnEmpty ==
    /\ pc = "constructed"
    /\ outDir' = Mkdir(outDir)
    /\ LET found == CollectTxts(textDir)
       IN  /\ txt_files' = found
           /\ IF found = <<>>
              THEN /\ emitted' = Emit(emitted, "ERROR", "No .txt files found", "text_dir")
                   /\ pc' = "raised"
                   /\ err' = "NoInputError"
                   /\ idx' = idx
              ELSE /\ emitted' = Emit(emitted, "INFO", "Found text files", Len(found))
                   /\ pc' = "process"
                   /\ err' = err
                   /\ idx' = 1
    /\ UNCHANGED <<ckptDir, textDir, outDir0, converter, target_se, tts, base_speaker_id,
                   tmpdir, tmpdirs, nextTmp, src_se, calls>>

Synthesize ==
    /\ pc = "constructed"
    /\ outDir' = Mkdir(outDir)
    /\ LET found == CollectTxts(textDir)
       IN  /\ txt_files' = found
           /\ IF found = <<>>
              THEN /\ emitted' = Emit(emitted, "ERROR", "No .txt files found", "text_dir")
                   /\ pc' = "done"
                   /\ idx' = idx
              ELSE /\ emitted' = Emit(emitted, "INFO", "Found text files", Len(found))
                   /\ pc' = "process"
                   /\ idx' = 1
    /\ UNCHANGED <<ckptDir, textDir, outDir0, err, converter, target_se, tts, base_speaker_id,
                   tmpdir, tmpdirs, nextTmp, src_se, calls>>

-----------------------------------------------------------------------------
(* _process_file *)

CurTxt == txt_files[idx]
CurText == Strip(ReadText(CurTxt.text))

ProcessFile ==
    /\ pc = "process"
    /\ \/ /\ CurText = <<>>
          /\ LoopNext(Emit(emitted, "WARNING", "is empty - skipping", CurTxt.name))
          /\ UNCHANGED <<tmpdir, tmpdirs, nextTmp>>
       \/ /\ CurText # <<>>
          /\ emitted' = Emit(emitted, "INFO", "Synthesising", CurTxt.name)
          /\ tmpdir' = nextTmp
          /\ tmpdirs' = Put(tmpdirs, nextTmp, NoClip)
          /\ nextTmp' = nextTmp + 1
          /\ pc' = "tts"
          /\ idx' = idx
    /\ UNCHANGED <<ckptDir, textDir, outDir0, outDir, err, converter, target_se, tts,
                   base_speaker_id, txt_files, src_se, calls>>

TtsToFile ==
    /\ pc = "tts"
    /\ LET args == [text |-> CurText, speaker_ids |-> <<base_speaker_id>>,
                    output_path |-> BaseAudio(tmpdir)]
       IN  \/ /\ calls' = Append(calls, Call("tts_to_file", args, TRUE, BaseClip(CurText, base_speaker_id)))
              /\ tmpdirs' = Put(tmpdirs, tmpdir, BaseClip(CurText, base_speaker_id))
              /\ pc' = "get_se"
              /\ UNCHANGED <<tmpdir, err>>
           \/ /\ calls' = Append(calls, Call("tts_to_file", args, FALSE, Failed))
              /\ StageRaise("EngineError")
    /\ UNCHANGED <<ckptDir, textDir, outDir0, outDir, converter, target_se, tts,
                   base_speaker_id, txt_files, idx, nextTmp, src_se, emitted>>

GetSe ==
    /\ pc = "get_se"
    /\ LET args == [audio_path |-> BaseAudio(tmpdir), vad |-> TRUE]
       IN  \/ /\ calls' = Append(calls, Call("get_se", args, TRUE, SeOf(tmpdirs[tmpdir])))
              /\ src_se' = SeOf(tmpdirs[tmpdir])
              /\ pc' = "convert"
              /\ UNCHANGED <<tmpdir, tmpdirs, err>>
           \/ /\ calls' = Append(calls, Call("get_se", args, FALSE, Failed))
              /\ StageRaise("ExtractionError")
              /\ src_se' = src_se
    /\ UNCHANGED <<ckptDir, textDir, outDir0, outDir, converter, target_se, tts,
                   base_speaker_id, txt_files, idx, nextTmp, emitted>>

Convert ==
    /\ pc = "convert"
    /\ LET final_out == FinalOut(CurTxt)
           args == ConvertArgs(tmpdir, src_se, target_se, final_out)
       IN  \/ /\ calls' = Append(calls, Call("convert", args, TRUE,
                                          Converted(tmpdirs[args.audio_src_path.tmp],
                                                    args.src_se, args.tgt_se)))
              /\ outDir' = [outDir EXCEPT !.files =
                    WriteFile(@, args.output_path,
                              Converted(tmpdirs[args.audio_src_path.tmp],
                                        args.src_se, args.tgt_se))]
              /\ pc' = "exit_tmp"
              /\ UNCHANGED <<tmpdir, tmpdirs, err>>
           \/ /\ calls' = Append(calls, Call("convert", args, FALSE, Failed))
              /\ StageRaise("ConversionError")
              /\ outDir' = outDir
    /\ UNCHANGED <<ckptDir, textDir, outDir0, converter, target_se, tts,
                   base_speaker_id, txt_files, idx, nextTmp, src_se, emitted>>

ExitTmp ==
    /\ pc = "exit_tmp"
    /\ tmpdirs' = TmpCleanup(tmpdirs, tmpdir)
    /\ tmpdir' = 0
    /\ LoopNext(Emit(emitted, "DEBUG", "saved", FinalOut(CurTxt).name))
    /\ UNCHANGED <<ckptDir, textDir, outDir0, outDir, err, converter, target_se, tts,
                   base_speaker_id, txt_files, nextTmp, src_se, calls>>

-----------------------------------------------------------------------------
Next ==
    \/ InitConverter
    \/ LoadTarget
    \/ InitTTS
    \/ Synthesize
    \/ ProcessFile
    \/ TtsToFile
    \/ GetSe
    \/ Convert
    \/ ExitTmp

Spec == Init /\ [][Next]_vars

-----------------------------------------------------------------------------
(* Vocabulary of the properties, stated from the inputs and the call record *)

SetupErrors == {"ConverterInitError", "FileNotFoundError", "CheckpointLoadError",
                "EngineInitError"}
StageErrors == {"EngineError", "ExtractionError", "ConversionError"}

StagePcs == {"tts", "get_se", "convert", "exit_tmp"}
SynthPcs == {"process", "done"} \cup StagePcs

\* synthesize has been entered.
SynthesizeCalled == pc \in SynthPcs \/ (pc = "raised" /\ err \in StageErrors)

\* Empty after trimming: nothing but whitespace.
AllSpace(t) ==
    \A i \in DOMAIN t :
        \/ t[i] \in {9, 10, 11, 12, 13, 28, 29, 30, 31, 32, 133, 160, 5760}
        \/ (t[i] >= 8192 /\ t[i] <= 8202)
        \/ t[i] \in {8232, 8233, 8239, 8287, 12288}

\* A regular file whose name ends in ".txt".
IsTxtDoc(e) ==
    /\ e.isFile
    /\ Len(e.name) >= 4
    /\ e.name[Len(e.name) - 3] = "."
    /\ e.name[Len(e.name) - 2] = "t"
    /\ e.name[Len(e.name) - 1] = "x"
    /\ e.name[Len(e.name)] = "t"

\* The documents of text_dir, in discovery order.
Discovered == SelectSeq(textDir, IsTxtDoc)

DocIds == 1..Len(Discovered)

\* The base name of a discovered document: its name without the extension.  A
\* name that is nothing but ".txt" has no extension and is its own base name.
BaseName(n) == IF Len(n) > 4 THEN SubSeq(n, 1, Len(n) - 4) ELSE n

WavName(n) == BaseName(n) \o <<".", "w", "a", "v">>

ExpectedOut(d) == [dir |-> <<>>, name |-> WavName(Discovered[d].name)]

CallsOf(d) == SelectSeq(calls, LAMBDA c : c.doc = d)

OkConverts == { i \in DOMAIN calls : calls[i].op = "convert" /\ calls[i].ok }

\* Document d has been taken up by the loop.
Started(d) == d < idx \/ (d = idx /\ pc # "process")

\* Files of output_dir that this run added or changed.
Written ==
    { p \in DOMAIN outDir.files :
        p \notin DOMAIN outDir0.files \/ outDir.files[p] # outDir0.files[p] }

-----------------------------------------------------------------------------
(* C1 *)

\* C1: per-document isolation.  A failure of the base engine, the extractor or
\* the converter for one document never escapes the batch loop: the program
\* is never stopped by a stage error.
C1_FailureDoesNotEscape == ~(pc = "raised" /\ err \in StageErrors)

-----------------------------------------------------------------------------
(* C2 *)

FullyConstructed ==
    /\ converter = "ready"
    /\ CkptName \in DOMAIN ckptDir
    /\ target_se = ckptDir[CkptName].se
    /\ tts = "ready"
    /\ base_speaker_id = SpeakerIds[1]

\* C2: no document is processed by a synthesizer whose construction did not
\* fully succeed.  Whenever synthesize has been entered, a collaborator has
\* been called, a temporary directory exists or output_dir has been touched,
\* all three setup steps have succeeded; a setup error stops the program with
\* no call made, no temporary directory created and output_dir as it was; and
\* without target_se.pth the program never gets past the checkpoint load.
C2_NoProcessingWithoutConstruction ==
    /\ (SynthesizeCalled \/ calls # <<>> \/ nextTmp # 1 \/ outDir # outDir0
          \/ txt_files # <<>>)
          => FullyConstructed
    /\ err \in SetupErrors =>
          /\ pc = "raised"
          /\ calls = <<>>
          /\ nextTmp = 1
          /\ outDir = outDir0
    /\ (CkptName \notin DOMAIN ckptDir /\ pc \notin {"new", "load_target"}) =>
          /\ pc = "raised"
          /\ err \in {"ConverterInitError", "FileNotFoundError"}

\* A run stopped by the missing checkpoint although a document was waiting.
C2_Witness ==
    /\ pc = "raised"
    /\ err = "FileNotFoundError"
    /\ Discovered # <<>>
    /\ ~AllSpace(Discovered[1].text)

-----------------------------------------------------------------------------
(* C3 *)

\* C3: empty-input no-op.  With no .txt file under text_dir, synthesize, once
\* entered, has returned normally: no error, no collaborator call, no
\* temporary directory, no file of output_dir added or changed, and the only
\* record it emitted is the "No .txt files found" diagnostic.
C3_EmptyInputNoOp ==
    (Discovered = <<>> /\ pc \notin {"new", "load_target", "init_tts", "constructed"}
        /\ err \notin SetupErrors)
    => /\ pc = "done"
       /\ err = "none"
       /\ calls = <<>>
       /\ nextTmp = 1
       /\ DOMAIN tmpdirs = {}
       /\ outDir.files = outDir0.files
       /\ emitted # <<>>
       /\ emitted[Len(emitted)].level = "ERROR"
       /\ emitted[Len(emitted)].what = "No .txt files found"
       /\ \A i \in DOMAIN emitted :
             emitted[i].what \notin {"Found text files", "Synthesising", "saved", "All done"}

\* synthesize returned over a text_dir that holds entries, none of them a
\* .txt file.
C3_Witness ==
    /\ pc = "done"
    /\ Discovered = <<>>
    /\ Len(textDir) >= 2
    /\ \E i \in DOMAIN textDir : ~textDir[i].isFile

-----------------------------------------------------------------------------
(* C4 *)

\* C4: temporary-resource discipline.  At most one temporary directory exists
\* at any time; it is the one of the document being processed; and between
\* documents, after the run and after a failure in any stage none exists.
C4_TempDiscipline ==
    /\ Cardinality(DOMAIN tmpdirs) <= 1
    /\ pc \in StagePcs => DOMAIN tmpdirs = {tmpdir}
    /\ pc \notin StagePcs => DOMAIN tmpdirs = {}

\* The second document failed in conversion after the first one succeeded,
\* and nothing is left behind.
C4_Witness ==
    /\ pc = "raised"
    /\ err = "ConversionError"
    /\ nextTmp = 3
    /\ DOMAIN tmpdirs = {}

-----------------------------------------------------------------------------
(* C5 *)

\* C5: naming contract.  Every document that completed all three stages has
\* its output directly in output_dir under its base name plus ".wav"
\* (h.txt -> h.wav), that file exists, and output_dir holds nothing but what
\* it held before and these files.
C5_NamingContract ==
    /\ \A i \in OkConverts :
          /\ calls[i].args.output_path = ExpectedOut(calls[i].doc)
          /\ calls[i].args.output_path.dir = <<>>
          /\ Discovered[calls[i].doc].name = NmH =>
                calls[i].args.output_path.name = NmHWav
          /\ ExpectedOut(calls[i].doc) \in DOMAIN outDir.files
    /\ DOMAIN outDir.files =
          DOMAIN outDir0.files \cup { ExpectedOut(calls[i].doc) : i \in OkConverts }

\* s/h.txt went through all three stages and output_dir, empty before, holds
\* h.wav and nothing else.
C5_Witness ==
    /\ pc = "done"
    /\ DOMAIN outDir0.files = {}
    /\ \E i \in OkConverts :
          /\ Discovered[calls[i].doc].dir = Sub
          /\ Discovered[calls[i].doc].name = NmH
    /\ DOMAIN outDir.files = { [dir |-> <<>>, name |-> NmHWav] }

-----------------------------------------------------------------------------
(* C6 *)

\* C6: total-failure reporting.  When synthesize finishes over a non-empty
\* batch of which no document was successfully processed, it reports the
\* batch as failed.
C6_TotalFailureReported ==
    (pc = "done" /\ Discovered # <<>> /\ OkConverts = {}) => err # "none"

-----------------------------------------------------------------------------
(* C7 *)

ProcessedOutputs == { ExpectedOut(calls[i].doc) : i \in OkConverts }

\* C7: idempotent output directory handling.  Once synthesize is entered
\* output_dir exists, whether it did before or not, and the run is never
\* stopped by anything but a collaborator; every file that was there and is
\* not the .wav of a processed document is still there unchanged; every file
\* added or changed is the .wav of a processed document.
C7_IdempotentOutputDir ==
    /\ SynthesizeCalled => outDir.exists
    /\ err \in {"none"} \cup SetupErrors \cup StageErrors
    /\ \A p \in DOMAIN outDir0.files :
          p \notin ProcessedOutputs =>
              /\ p \in DOMAIN outDir.files
              /\ outDir.files[p] = outDir0.files[p]
    /\ Written \subseteq ProcessedOutputs

\* A finished run over an output_dir that held h.wav and k: h.wav has been
\* replaced, k is as it was.
C7_Witness ==
    /\ pc = "done"
    /\ outDir0.exists
    /\ [dir |-> <<>>, name |-> NmHWav] \in Written
    /\ [dir |-> <<>>, name |-> NmKeep] \in DOMAIN outDir.files
    /\ outDir.files[[dir |-> <<>>, name |-> NmKeep]] = OldData

-----------------------------------------------------------------------------
(* C8 *)

StageOps == <<"tts_to_file", "get_se", "convert">>

\* The calls made for document d are a prefix of the three stages in order,
\* only the last of them may have failed, and each stage is handed what the
\* stages before it produced for this document.
PipelineOf(d) ==
    LET cs == CallsOf(d)
    IN  /\ Len(cs) <= 3
        /\ \A k \in 1..Len(cs) :
              /\ cs[k].op = StageOps[k]
              /\ k < Len(cs) => cs[k].ok
        /\ Len(cs) >= 2 =>
              /\ cs[2].args.audio_path = cs[1].args.output_path
              /\ cs[2].ok => cs[2].ret = <<"se", cs[1].ret>>
        /\ Len(cs) = 3 =>
              /\ cs[3].args.audio_src_path = cs[1].args.output_path
              /\ cs[3].args.src_se = cs[2].ret
              /\ cs[3].args.tgt_se = ckptDir[CkptName].se
              /\ cs[3].ok => cs[3].ret = <<"conv", cs[1].ret, cs[2].ret, ckptDir[CkptName].se>>

\* C8: stage order and data flow.  Documents are worked on one after the
\* other; for each, base rendering, extraction and conversion run at most once
\* and in this order, extraction and conversion read the base clip rendered
\* for that document (a location no other document uses), conversion gets the
\* embedding extraction returned and the target embedding of the checkpoint;
\* when the run is done every non-empty document has had all three stages;
\* and the synthesizer's target embedding stays the one loaded.
C8_StageOrderAndDataFlow ==
    /\ \A d \in DocIds : PipelineOf(d)
    /\ \A i, j \in DOMAIN calls :
          /\ i < j => calls[i].doc <= calls[j].doc
          /\ (calls[i].op = "tts_to_file" /\ calls[j].op = "tts_to_file" /\ i # j)
                => calls[i].args.output_path # calls[j].args.output_path
    /\ \A i \in DOMAIN calls : calls[i].doc \in DocIds
    /\ pc = "done" =>
          \A d \in DocIds :
              ~AllSpace(Discovered[d].text) =>
                  /\ Len(CallsOf(d)) = 3
                  /\ CallsOf(d)[3].ok
    /\ (pc \in {"init_tts", "constructed"} \cup SynthPcs \/ calls # <<>>) =>
          /\ CkptName \in DOMAIN ckptDir
          /\ target_se = ckptDir[CkptName].se

\* A finished run in which two documents went through all three stages.
C8_Witness ==
    /\ pc = "done"
    /\ Cardinality(OkConverts) >= 2

-----------------------------------------------------------------------------
(* C9 *)

\* C9: empty-document skip.  For a document that is empty after trimming no
\* collaborator is ever called, the program is never inside the pipeline and
\* never stopped on it; temporary directories are created for the non-empty
\* documents taken up and for no other; a batch of empty documents leaves
\* output_dir's files as they were; and a finished run has been through every
\* document.
C9_EmptyDocumentSkipped ==
    /\ \A d \in DocIds :
          AllSpace(Discovered[d].text) =>
              /\ CallsOf(d) = <<>>
              /\ ~(idx = d /\ pc \in StagePcs \cup {"raised"})
    /\ nextTmp - 1 =
          Cardinality({ d \in DocIds : Started(d) /\ ~AllSpace(Discovered[d].text) })
    /\ (\A d \in DocIds : AllSpace(Discovered[d].text)) => outDir.files = outDir0.files
    /\ (pc = "done" /\ Discovered # <<>>) => idx = Len(Discovered)

\* A finished run whose first document was whitespace only and in which a
\* later document was converted.
C9_Witness ==
    /\ pc = "done"
    /\ Len(Discovered) >= 2
    /\ AllSpace(Discovered[1].text)
    /\ Discovered[1].text # <<>>
    /\ OkConverts # {}

-----------------------------------------------------------------------------
(* C10 *)

SameBase(i, j) ==
    BaseName(Discovered[calls[i].doc].name) = BaseName(Discovered[calls[j].doc].name)

Collision == \E i, j \in OkConverts : i # j /\ SameBase(i, j)

\* C10: output-name collision.  Documents are converted in discovery order;
\* the file <base>.wav holds the output of the last converted document with
\* that base name, so a later document replaces the output of an earlier one
\* of the same base name and documents of different base names leave each
\* other's output alone; and the run has written fewer files than it has
\* converted documents exactly when two of them share a base name.
C10_LaterOverwritesFormer ==
    /\ txt_files # <<>> => txt_files = Discovered
    /\ \A i, j \in OkConverts : i < j => calls[i].doc < calls[j].doc
    /\ \A i \in OkConverts :
          (\A j \in OkConverts : (j > i) => ~SameBase(i, j)) =>
              /\ ExpectedOut(calls[i].doc) \in DOMAIN outDir.files
              /\ outDir.files[ExpectedOut(calls[i].doc)] = calls[i].ret
    /\ Collision => Cardinality(Written) < Cardinality(OkConverts)
    /\ ~Collision => Cardinality(Written) = Cardinality(OkConverts)

\* h.txt was converted from two directories with different texts; h.wav holds
\* the later one's audio.
C10_Witness ==
    /\ pc = "done"
    /\ \E i, j \in OkConverts :
          /\ i < j
          /\ Discovered[calls[i].doc].name = Discovered[calls[j].doc].name
          /\ Discovered[calls[i].doc].dir # Discovered[calls[j].doc].dir
          /\ calls[i].ret # calls[j].ret
          /\ outDir.files[[dir |-> <<>>, name |-> NmHWav]] = calls[j].ret
          /\ outDir.files[[dir |-> <<>>, name |-> NmHWav]] # calls[i].ret

====
